---------------------------- MODULE Spec2Model ----------------------------
(***************************************************************************)
(* Model of scripts/json-export.py: export_architecture_data and the       *)
(* __main__ block that turns its result into the process exit code; and,   *)
(* in its own section, of tmp/coordinator_map_orchestration.py.            *)
(*                                                                         *)
(* Python values are tagged tuples: None is <<"None">>, the str s is       *)
(* <<"str", s>> with s a sequence of characters, the int n is <<"int", n>>.*)
(* A character is a one-character string; a CJK character, which the       *)
(* module's character set cannot spell, is written by its code point       *)
(* ("u4E0D" is U+4E0D).                                                    *)
(*                                                                         *)
(* Environment: database and file-system calls may fail; print() does not. *)
(* Text columns hold NULL or text, ZAR_YEAR holds NULL or an integer.      *)
(***************************************************************************)
EXTENDS Integers, Sequences, FiniteSets, TLC

VARIABLES
    table,          \* rows of ZCDARCHITECTURE, in Z_PK (rowid) order
    changed,        \* modifications of the table since this run's COUNT(*)
    clock,          \* wall clock: one tick per process start
    dirExists,      \* output_dir exists
    pages,          \* output_dir/page_<n>.json : n -> file content
    index_file,     \* output_dir/search_index.json
    metadata_file,  \* output_dir/metadata.json
    pc,             \* position of the running process
    conn,           \* sequence of "open"/"close" events on the connection
    total_count,    \* locals of export_architecture_data
    total_pages,
    page,
    rows,
    page_data,
    all_items,
    search_index,
    exc,            \* the exception raised in this run, if any
    ret,            \* value returned by export_architecture_data
    wlog,           \* the file writes this run has attempted, in order
    qlog,           \* the statements this run has executed, in order
    out,            \* lines this run has printed, by kind
    exit_code,      \* -1 while the process runs
    disk0,          \* content of output_dir when the process started
    plan,           \* coordinator: the agents of the loaded plan, in file order
    agents,         \* coordinator: self.agents
    communication_log,  \* coordinator: self.communication_log
    cpc,            \* coordinator: position of orchestrate_implementation
    tasks,          \* coordinator: spawn_agent tasks that have not run yet
    sent,           \* coordinator: scripted messages sent so far
    report          \* coordinator: the report, once it is built

\* the state of scripts/json-export.py
exporter == <<table, changed, clock, dirExists, pages, index_file,
              metadata_file, pc, conn, total_count, total_pages, page, rows,
              page_data, all_items, search_index, exc, ret, wlog, qlog, out,
              exit_code, disk0>>

\* the state of tmp/coordinator_map_orchestration.py
coordinator == <<plan, agents, communication_log, cpc, tasks, sent, report>>

vars == <<exporter, coordinator>>

disk == <<dirExists, pages, index_file, metadata_file>>
locals == <<total_count, total_pages, page, rows, page_data, all_items,
            search_index>>

-----------------------------------------------------------------------------
(* Bounds *)

MaxCount == 120     \* largest source table
MaxRuns == 2        \* process starts against one output_dir
MaxChanges == 1     \* concurrent modifications of the source per run

-----------------------------------------------------------------------------
(* Python values *)

None == <<"None">>
Str(s) == <<"str", s>>
PInt(n) == <<"int", n>>

IsNone(v) == v[1] = "None"
IsStr(v) == v[1] = "str"
IsInt(v) == v[1] = "int"

\* bool(v): None, "" and 0 are false
Truthy(v) ==
    CASE IsNone(v) -> FALSE
      [] IsStr(v)  -> Len(v[2]) > 0
      [] IsInt(v)  -> v[2] # 0

\* a or b
PyOr(a, b) == IF Truthy(a) THEN a ELSE b

-----------------------------------------------------------------------------
(* Constants of the script *)

items_per_page == 50

UnknownTitle == Str(<<"u4E0D", "u660E", "u306A", "u5EFA", "u7BC9", "u7269">>)
UnknownArchitect == Str(<<"u4E0D", "u660E", "u306A", "u5EFA", "u7BC9", "u5BB6">>)
UnknownAddress == Str(<<"u4F4F", "u6240", "u4E0D", "u660E">>)


-----------------------------------------------------------------------------
(* The source table.  Z_PK is the INTEGER PRIMARY KEY (the rowid), so the  *)
(* table is held in strictly ascending id order; ids are not contiguous.   *)

T_Abcd == <<"A", "b", "c", "d", " ", "a", "b", "c", "E", " ", "x">>
T_Kyo == <<"K", "y", "o">>
A_Ando == <<"T", "a", "d", "a", "o", " ", "A", "n", "d", "o">>
D_Tokyo == <<"T", "o", "k", "y", "o", "-", "t", "o">>
D_Nara == <<"N", "a", "r", "a">>
G_Museum == <<"M", "u", "s", "e", "u", "m">>

TitleVals == <<None, Str(<<>>), Str(T_Abcd), Str(T_Kyo)>>
ArchitectVals == <<None, Str(<<>>), Str(A_Ando), UnknownArchitect>>
AddressVals == <<None, Str(<<>>), Str(D_Tokyo), Str(D_Nara), Str(<<" ">>)>>
YearVals == <<None, PInt(0), PInt(-5), PInt(1923)>>
CategoryVals == <<None, Str(<<>>), Str(G_Museum)>>

IdOf(k) == 3 * k - (k % 2)

Row(k) ==
    [id |-> PInt(IdOf(k)),
     title |-> TitleVals[(k % 4) + 1],
     architect |-> ArchitectVals[((k \div 4) % 4) + 1],
     year |-> YearVals[((k \div 2) % 4) + 1],
     address |-> AddressVals[((k \div 16) % 5) + 1],
     latitude |-> IF k % 2 = 0 THEN None ELSE PInt(35),
     longitude |-> IF k % 2 = 0 THEN None ELSE PInt(139),
     category |-> CategoryVals[(k % 3) + 1],
     big_category |-> None,
     description |-> IF k % 5 = 0 THEN Str(<<>>) ELSE None,
     image_url |-> None,
     tags |-> IF k % 7 = 0 THEN Str(<<"a", ",", "b">>) ELSE None,
     prefecture |-> None,
     contractor |-> None,
     structural_designer |-> None,
     landscape_designer |-> None,
     shinkenchiku_url |-> None]

MkTable(n) == [k \in 1..n |-> Row(k)]

Counts == {0, 1, items_per_page, items_per_page + 1, MaxCount}
Tables == {MkTable(n) : n \in Counts}

Ids(seq) == [i \in 1..Len(seq) |-> seq[i].id[2]]

\* SELECT COUNT(*) FROM ZCDARCHITECTURE
SelectCount(t) == Len(t)

Min(a, b) == IF a < b THEN a ELSE b

\* SELECT ... FROM ZCDARCHITECTURE ORDER BY Z_PK LIMIT limit OFFSET offset
SelectPage(t, limit, offset) == SubSeq(t, offset + 1, Min(offset + limit, Len(t)))

\* floor division in place of math.ceil
FloorDiv(n, d) == n \div d

\* a page count that rounds up by always adding one page
CeilDivPlusOne(n, d) == n \div d + 1

\* math.ceil(total_count / items_per_page)
CeilDiv(n, d) == IF n % d = 0 THEN n \div d ELSE (n \div d) + 1

\* the 1-based page number used for the offset
OffsetFromPageNumber(p) == (p + 1) * items_per_page

\* offset = page * items_per_page
Offset(p) == p * items_per_page

-----------------------------------------------------------------------------
(* Record normalizer, lines 80-98 *)

\* "is None" in place of the truth test: the empty string passes through
NormTitleNoneOnly(v) == IF IsNone(v) THEN UnknownTitle ELSE v

NormTitle(v) == PyOr(v, UnknownTitle)
NormArchitect(v) == PyOr(v, UnknownArchitect)
NormAddress(v) == PyOr(v, UnknownAddress)

\* a year test that forgets the sign: any non-zero year is kept
NormYearTruthyOnly(v) == IF Truthy(v) THEN v ELSE None

\* row["year"] if row["year"] and row["year"] > 0 else None
NormYear(v) == IF Truthy(v) /\ v[2] > 0 THEN v ELSE None

\* a normalizer that also defaults the category and the description
NormalizeDefaultsEverywhere(row) ==
    [id |-> row.id,
     title |-> NormTitle(row.title),
     architect |-> NormArchitect(row.architect),
     year |-> NormYear(row.year),
     address |-> NormAddress(row.address),
     latitude |-> row.latitude,
     longitude |-> row.longitude,
     category |-> PyOr(row.category, UnknownTitle),
     big_category |-> row.big_category,
     description |-> PyOr(row.description, None),
     image_url |-> row.image_url,
     tags |-> row.tags,
     prefecture |-> row.prefecture,
     contractor |-> row.contractor,
     structural_designer |-> row.structural_designer,
     landscape_designer |-> row.landscape_designer,
     shinkenchiku_url |-> row.shinkenchiku_url]

Normalize(row) ==
    [id |-> row.id,
     title |-> NormTitle(row.title),
     architect |-> NormArchitect(row.architect),
     year |-> NormYear(row.year),
     address |-> NormAddress(row.address),
     latitude |-> row.latitude,
     longitude |-> row.longitude,
     category |-> row.category,
     big_category |-> row.big_category,
     description |-> row.description,
     image_url |-> row.image_url,
     tags |-> row.tags,
     prefecture |-> row.prefecture,
     contractor |-> row.contractor,
     structural_designer |-> row.structural_designer,
     landscape_designer |-> row.landscape_designer,
     shinkenchiku_url |-> row.shinkenchiku_url]

NormalizeAll(rs) == [i \in 1..Len(rs) |-> Normalize(rs[i])]

-----------------------------------------------------------------------------
(* Index builder, lines 117-165 *)

UpperToLower ==
    [A |-> "a", B |-> "b", C |-> "c", D |-> "d", E |-> "e", F |-> "f",
     G |-> "g", H |-> "h", I |-> "i", J |-> "j", K |-> "k", L |-> "l",
     M |-> "m", N |-> "n", O |-> "o", P |-> "p", Q |-> "q", R |-> "r",
     S |-> "s", T |-> "t", U |-> "u", V |-> "v", W |-> "w", X |-> "x",
     Y |-> "y", Z |-> "z"]

LowerChar(c) == IF c \in DOMAIN UpperToLower THEN UpperToLower[c] ELSE c

\* str.lower()
Lower(s) == [i \in 1..Len(s) |-> LowerChar(s[i])]

Whitespace == {" ", "\t", "\n", "\r"}

\* str.split(): the maximal runs of non-whitespace characters, in order
RECURSIVE SplitFrom(_, _, _)
SplitFrom(s, i, cur) ==
    IF i > Len(s)
    THEN IF cur = <<>> THEN <<>> ELSE <<cur>>
    ELSE IF s[i] \in Whitespace
         THEN IF cur = <<>>
              THEN SplitFrom(s, i + 1, <<>>)
              ELSE <<cur>> \o SplitFrom(s, i + 1, <<>>)
         ELSE SplitFrom(s, i + 1, Append(cur, s[i]))

Split(s) == SplitFrom(s, 1, <<>>)

\* s[:n]
Prefix(s, n) == SubSeq(s, 1, Min(n, Len(s)))

Digit(d) == <<"0", "1", "2", "3", "4", "5", "6", "7", "8", "9">>[d + 1]

RECURSIVE Digits(_)
Digits(n) == IF n < 10 THEN <<Digit(n)>> ELSE Append(Digits(n \div 10), Digit(n % 10))

\* str(n)
PyStr(n) == IF n < 0 THEN <<"-">> \o Digits(-n) ELSE Digits(n)

EmptyIndex ==
    [architects |-> <<>>, years |-> <<>>, categories |-> <<>>,
     titles |-> <<>>, addresses |-> <<>>]

\* an index insertion that skips an id the list already holds
AddIdOnce(d, key, item_id) ==
    IF key \in DOMAIN d
    THEN IF \E j \in DOMAIN d[key] : d[key][j] = item_id
         THEN d
         ELSE [d EXCEPT ![key] = Append(@, item_id)]
    ELSE d @@ (key :> <<item_id>>)

\* if key not in d: d[key] = []
\* d[key].append(item_id)
AddId(d, key, item_id) ==
    IF key \in DOMAIN d
    THEN [d EXCEPT ![key] = Append(@, item_id)]
    ELSE d @@ (key :> <<item_id>>)

ArchitectKeys(item) ==
    IF Truthy(item.architect) /\ item.architect # UnknownArchitect
    THEN <<Lower(item.architect[2])>>
    ELSE <<>>

YearKeys(item) == IF Truthy(item.year) THEN <<PyStr(item.year[2])>> ELSE <<>>

\* the title keys without the test on the token's length
TitleKeysAllTokens(item) ==
    IF Truthy(item.title)
    THEN LET parts == Split(Lower(item.title[2]))
         IN  [i \in 1..Len(parts) |-> Prefix(parts[i], 3)]
    ELSE <<>>

TitleKeys(item) ==
    IF Truthy(item.title)
    THEN LET parts == Split(Lower(item.title[2]))
             long == SelectSeq(parts, LAMBDA part : Len(part) >= 2)
         IN  [i \in 1..Len(long) |-> Prefix(long[i], 3)]
    ELSE <<>>

CategoryKeys(item) ==
    IF Truthy(item.category) THEN <<Lower(item.category[2])>> ELSE <<>>

AddressKeys(item) ==
    IF Truthy(item.address) /\ item.address # UnknownAddress
    THEN <<Prefix(Lower(item.address[2]), 5)>>
    ELSE <<>>

RECURSIVE AddIds(_, _, _)
AddIds(d, keys, item_id) ==
    IF keys = <<>> THEN d
    ELSE AddIds(AddId(d, Head(keys), item_id), Tail(keys), item_id)

IndexItem(idx, item) ==
    [architects |-> AddIds(idx.architects, ArchitectKeys(item), item.id[2]),
     years |-> AddIds(idx.years, YearKeys(item), item.id[2]),
     titles |-> AddIds(idx.titles, TitleKeys(item), item.id[2]),
     categories |-> AddIds(idx.categories, CategoryKeys(item), item.id[2]),
     addresses |-> AddIds(idx.addresses, AddressKeys(item), item.id[2])]

\* the loop body applied to items[lo], items[lo + 1], ..., items[hi] in that
\* order, starting from idx.  The range is halved, and the first half's result
\* is a value before the second half starts, to keep the evaluation shallow.
RECURSIVE IndexRange(_, _, _, _)
IndexRange(idx, items, lo, hi) ==
    IF lo > hi THEN idx
    ELSE IF lo = hi THEN IndexItem(idx, items[lo])
    ELSE LET mid == (lo + hi) \div 2
         IN  CHOOSE last \in
                 {IndexRange(first, items, mid + 1, hi) :
                      first \in {IndexRange(idx, items, lo, mid)}} : TRUE

\* for item in all_items: ...
BuildIndex(items) == IndexRange(EmptyIndex, items, 1, Len(items))

-----------------------------------------------------------------------------
(* Files.  A file that open(..., 'w') truncated and json.dump did not      *)
(* finish holds part of a JSON text.                                       *)

\* the exception of kind k raised at step w while the loop variable was p
Raised(k, w, p) == [kind |-> k, where |-> w, page |-> p]
NoException == Raised("none", "none", 0)

Absent == <<"absent">>
Partial == <<"partial">>
Json(body) == <<"json", body>>

IsJson(f) == f[1] = "json"

PageName(n) == <<"page", n>>
IndexName == <<"search_index", 0>>
MetadataName == <<"metadata", 0>>

\* a page document numbered with the loop index
PageDocZeroBased(p, tp, tc, data) ==
    [page |-> p, total_pages |-> tp, items_per_page |-> items_per_page,
     total_items |-> tc, items |-> data]

\* a page document that also carries the time of the run
PageDocStamped(p, tp, tc, data) ==
    [page |-> p + 1, total_pages |-> tp, items_per_page |-> items_per_page,
     total_items |-> tc, items |-> data, generated_at |-> clock]

\* lines 105-111
PageDoc(p, tp, tc, data) ==
    [page |-> p + 1, total_pages |-> tp, items_per_page |-> items_per_page,
     total_items |-> tc, items |-> data]

\* a manifest whose total_items is computed from the number of pages
MetadataDocFullPages(tc, tp, now) ==
    [total_items |-> tp * items_per_page, total_pages |-> tp,
     items_per_page |-> items_per_page, generated_at |-> now,
     format_version |-> <<"1", ".", "0">>]

\* lines 175-181
MetadataDoc(tc, tp, now) ==
    [total_items |-> tc, total_pages |-> tp, items_per_page |-> items_per_page,
     generated_at |-> now, format_version |-> <<"1", ".", "0">>]

\* cursor.execute("SELECT COUNT(*) ..."), and whether it returned
CountStatement(returned) ==
    [q |-> "count", limit |-> 0, offset |-> 0, ok |-> returned]

\* cursor.execute("SELECT ... LIMIT ? OFFSET ?", (limit, offset))
PageStatement(lim, off, returned) ==
    [q |-> "page", limit |-> lim, offset |-> off, ok |-> returned]

\* the file at pages[n], Absent when there is none
PageFile(ps, n) == IF n \in DOMAIN ps THEN ps[n] ELSE Absent

PutPage(ps, n, f) == (n :> f) @@ ps

-----------------------------------------------------------------------------
(* The process *)

\* the coordinator script is not running
NoCoordinator ==
    /\ plan = <<>>
    /\ agents = <<>>
    /\ communication_log = <<>>
    /\ cpc = "idle"
    /\ tasks = {}
    /\ sent = 0
    /\ report = <<>>

\* the state when the script is first started on a table of T
InitOn(T) ==
    /\ table \in T
    /\ changed = 0
    /\ clock = 1
    /\ dirExists = FALSE
    /\ pages = <<>>
    /\ index_file = Absent
    /\ metadata_file = Absent
    /\ pc = "start"
    /\ conn = <<>>
    /\ total_count = 0
    /\ total_pages = 0
    /\ page = 0
    /\ rows = <<>>
    /\ page_data = <<>>
    /\ all_items = <<>>
    /\ search_index = EmptyIndex
    /\ exc = NoException
    /\ ret = "none"
    /\ wlog = <<>>
    /\ qlog = <<>>
    /\ out = <<>>
    /\ exit_code = -1
    /\ disk0 = <<FALSE, <<>>, Absent, Absent>>
    /\ NoCoordinator

Init == InitOn(Tables)

\* lines 18-23: os.makedirs(output_dir, exist_ok=True)
MakeDirs ==
    /\ pc = "start"
    /\ dirExists' = TRUE
    /\ out' = Append(out, "banner")
    /\ pc' = "connect"
    /\ UNCHANGED <<table, changed, clock, pages, index_file, metadata_file,
                   conn, locals, ret, wlog, exit_code, disk0, exc,
                   qlog, coordinator>>

\* line 23 raises OSError outside any try: the interpreter prints the
\* traceback and exits with status 1
MakeDirsFails ==
    /\ pc = "start"
    /\ ~dirExists
    /\ out' = out \o <<"banner", "traceback">>
    /\ exit_code' = 1
    /\ exc' = Raised("os", "start", page)
    /\ pc' = "exited"
    /\ UNCHANGED <<table, changed, clock, disk, conn, locals, ret, wlog, disk0,
                   qlog, coordinator>>

\* lines 26-30
Connect ==
    /\ pc = "connect"
    /\ conn' = Append(conn, "open")
    /\ out' = Append(out, "connected")
    /\ pc' = "count"
    /\ UNCHANGED <<table, changed, clock, disk, locals, ret, wlog, exit_code,
                   disk0, exc, qlog, coordinator>>

\* the handler also writes a manifest of an empty export
ConnectFailsWritesManifest ==
    /\ pc = "connect"
    /\ out' = Append(out, "db_error")
    /\ metadata_file' = Json(MetadataDoc(0, 0, clock))
    /\ wlog' = Append(wlog, [name |-> MetadataName, res |-> "written"])
    /\ ret' = "False"
    /\ exit_code' = 1
    /\ exc' = Raised("connect", "connect", page)
    /\ pc' = "exited"
    /\ UNCHANGED <<table, changed, clock, dirExists, pages, index_file, conn,
                   locals, disk0, qlog, coordinator>>

\* lines 31-33, then lines 220-221
ConnectFails ==
    /\ pc = "connect"
    /\ out' = Append(out, "db_error")
    /\ ret' = "False"
    /\ exit_code' = 1
    /\ exc' = Raised("connect", "connect", page)
    /\ pc' = "exited"
    /\ UNCHANGED <<table, changed, clock, disk, conn, locals, wlog, disk0,
                   qlog, coordinator>>

\* lines 37-48
CountQuery ==
    /\ pc = "count"
    /\ total_count' = SelectCount(table)
    /\ total_pages' = CeilDiv(total_count', items_per_page)
    /\ all_items' = <<>>
    /\ changed' = 0
    /\ out' = out \o <<"total", "plan">>
    /\ qlog' = Append(qlog, CountStatement(TRUE))
    /\ pc' = IF total_pages' > 0 THEN "paging" ELSE "indexing"
    /\ UNCHANGED <<table, clock, disk, conn, page, rows, page_data,
                   search_index, ret, wlog, exit_code, disk0, exc,
                   coordinator>>

\* a failing statement that is executed again instead of ending the run
QueryFailsThenRetries ==
    /\ pc \in {"count", "paging"}
    /\ exc = NoException
    /\ exc' = Raised("query", pc, page)
    /\ qlog' = Append(qlog, IF pc = "count" THEN CountStatement(FALSE)
                           ELSE PageStatement(items_per_page, Offset(page), FALSE))
    /\ UNCHANGED <<table, changed, clock, disk, pc, conn, locals, ret, wlog, out,
                   exit_code, disk0, coordinator>>

\* cursor.execute raises at line 37 or line 52
QueryFails ==
    /\ pc \in {"count", "paging"}
    /\ exc' = Raised("query", pc, page)
    /\ qlog' = Append(qlog, IF pc = "count" THEN CountStatement(FALSE)
                           ELSE PageStatement(items_per_page, Offset(page), FALSE))
    /\ pc' = "except"
    /\ UNCHANGED <<table, changed, clock, disk, conn, locals, ret, wlog, out,
                   exit_code, disk0, coordinator>>

\* lines 49-77
PageQuery ==
    /\ pc = "paging"
    /\ rows' = SelectPage(table, items_per_page, Offset(page))
    /\ page_data' = <<>>
    /\ qlog' = Append(qlog, PageStatement(items_per_page, Offset(page), TRUE))
    /\ pc' = "normalizing"
    /\ UNCHANGED <<table, changed, clock, disk, conn, total_count, total_pages,
                   page, all_items, search_index, ret, wlog, out, exit_code,
                   disk0, exc, coordinator>>

\* lines 79-100
NormalizeRows ==
    /\ pc = "normalizing"
    /\ page_data' = NormalizeAll(rows)
    /\ all_items' = all_items \o page_data'
    /\ pc' = "writing_page"
    /\ UNCHANGED <<table, changed, clock, disk, conn, total_count, total_pages,
                   page, rows, search_index, ret, wlog, out, exit_code, disk0, exc,
                   qlog, coordinator>>

\* a page loop that goes back to the query without advancing the page index
WritePageSamePage ==
    /\ pc = "writing_page"
    /\ pages' = PutPage(pages, page + 1,
                        Json(PageDoc(page, total_pages, total_count, page_data)))
    /\ wlog' = Append(wlog, [name |-> PageName(page + 1), res |-> "written"])
    /\ out' = Append(out, "page")
    /\ pc' = "paging"
    /\ UNCHANGED <<table, changed, clock, dirExists, index_file, metadata_file,
                   conn, total_count, total_pages, page, rows, page_data,
                   all_items, search_index, ret, exit_code, disk0, exc,
                   qlog, coordinator>>

\* a page write after which the index is built at once, whatever pages remain
WritePageThenIndex ==
    /\ pc = "writing_page"
    /\ pages' = PutPage(pages, page + 1,
                        Json(PageDoc(page, total_pages, total_count, page_data)))
    /\ wlog' = Append(wlog, [name |-> PageName(page + 1), res |-> "written"])
    /\ out' = Append(out, "page")
    /\ pc' = "indexing"
    /\ UNCHANGED <<table, changed, clock, dirExists, index_file, metadata_file,
                   conn, total_count, total_pages, page, rows, page_data,
                   all_items, search_index, ret, exit_code, disk0, exc,
                   qlog, coordinator>>

\* lines 103-113, and the loop header for the next page
WritePage ==
    /\ pc = "writing_page"
    /\ pages' = PutPage(pages, page + 1,
                        Json(PageDoc(page, total_pages, total_count, page_data)))
    /\ wlog' = Append(wlog, [name |-> PageName(page + 1), res |-> "written"])
    /\ out' = Append(out, "page")
    /\ IF page + 1 < total_pages
       THEN page' = page + 1 /\ pc' = "paging"
       ELSE page' = page /\ pc' = "indexing"
    /\ UNCHANGED <<table, changed, clock, dirExists, index_file, metadata_file,
                   conn, total_count, total_pages, rows, page_data, all_items,
                   search_index, ret, exit_code, disk0, exc,
                   qlog, coordinator>>

\* line 104 raises (the file is untouched) or line 105 raises (the file was
\* truncated and is partly written)
WritePageFails ==
    /\ pc = "writing_page"
    /\ \/ /\ pages' = pages
          /\ wlog' = Append(wlog, [name |-> PageName(page + 1), res |-> "unopened"])
       \/ /\ pages' = PutPage(pages, page + 1, Partial)
          /\ wlog' = Append(wlog, [name |-> PageName(page + 1), res |-> "truncated"])
    /\ exc' = Raised("write", pc, page)
    /\ pc' = "except"
    /\ UNCHANGED <<table, changed, clock, dirExists, index_file, metadata_file,
                   conn, locals, ret, out, exit_code, disk0,
                   qlog, coordinator>>

\* lines 116-165
BuildSearchIndex ==
    /\ pc = "indexing"
    /\ search_index' = BuildIndex(all_items)
    /\ out' = Append(out, "indexing")
    /\ pc' = "writing_index"
    /\ UNCHANGED <<table, changed, clock, disk, conn, total_count, total_pages,
                   page, rows, page_data, all_items, ret, wlog, exit_code,
                   disk0, exc, qlog, coordinator>>

\* lines 168-172
WriteIndex ==
    /\ pc = "writing_index"
    /\ index_file' = Json(search_index)
    /\ wlog' = Append(wlog, [name |-> IndexName, res |-> "written"])
    /\ out' = Append(out, "index_ok")
    /\ pc' = "writing_metadata"
    /\ UNCHANGED <<table, changed, clock, dirExists, pages, metadata_file, conn,
                   locals, ret, exit_code, disk0, exc, qlog, coordinator>>

\* the failed index write is swallowed and the run goes on to the metadata
WriteIndexFailsSwallowed ==
    /\ pc = "writing_index"
    /\ index_file' = Partial
    /\ wlog' = Append(wlog, [name |-> IndexName, res |-> "truncated"])
    /\ pc' = "writing_metadata"
    /\ UNCHANGED <<table, changed, clock, dirExists, pages, metadata_file, conn,
                   locals, exc, ret, out, exit_code, disk0, qlog, coordinator>>

WriteIndexFails ==
    /\ pc = "writing_index"
    /\ \/ /\ index_file' = index_file
          /\ wlog' = Append(wlog, [name |-> IndexName, res |-> "unopened"])
       \/ /\ index_file' = Partial
          /\ wlog' = Append(wlog, [name |-> IndexName, res |-> "truncated"])
    /\ exc' = Raised("write", pc, page)
    /\ pc' = "except"
    /\ UNCHANGED <<table, changed, clock, dirExists, pages, metadata_file, conn,
                   locals, ret, out, exit_code, disk0, qlog, coordinator>>

\* lines 175-187
WriteMetadata ==
    /\ pc = "writing_metadata"
    /\ metadata_file' = Json(MetadataDoc(total_count, total_pages, clock))
    /\ wlog' = Append(wlog, [name |-> MetadataName, res |-> "written"])
    /\ out' = Append(out, "meta_ok")
    /\ pc' = "summary"
    /\ UNCHANGED <<table, changed, clock, dirExists, pages, index_file, conn,
                   locals, ret, exit_code, disk0, exc, qlog, coordinator>>

WriteMetadataFails ==
    /\ pc = "writing_metadata"
    /\ \/ /\ metadata_file' = metadata_file
          /\ wlog' = Append(wlog, [name |-> MetadataName, res |-> "unopened"])
       \/ /\ metadata_file' = Partial
          /\ wlog' = Append(wlog, [name |-> MetadataName, res |-> "truncated"])
    /\ exc' = Raised("write", pc, page)
    /\ pc' = "except"
    /\ UNCHANGED <<table, changed, clock, dirExists, pages, index_file, conn,
                   locals, ret, out, exit_code, disk0, qlog, coordinator>>

\* lines 190-201
Summary ==
    /\ pc = "summary"
    /\ out' = Append(out, "summary")
    /\ ret' = "True"
    /\ pc' = "finally"
    /\ UNCHANGED <<table, changed, clock, disk, conn, locals, wlog, exit_code,
                   disk0, exc, qlog, coordinator>>

\* os.listdir or os.path.getsize raises at lines 190-191
SummaryFails ==
    /\ pc = "summary"
    /\ exc' = Raised("os", pc, page)
    /\ pc' = "except"
    /\ UNCHANGED <<table, changed, clock, disk, conn, locals, ret, wlog, out,
                   exit_code, disk0, qlog, coordinator>>

\* no finally clause: the handler returns with the connection still open
ExceptWithoutFinally ==
    /\ pc = "except"
    /\ out' = Append(out, "export_error")
    /\ ret' = "False"
    /\ exit_code' = 1
    /\ pc' = "exited"
    /\ UNCHANGED <<table, changed, clock, disk, conn, locals, wlog, exc, disk0,
                   qlog, coordinator>>

\* the handler removes the page files the run has written
ExceptRollsBack ==
    /\ pc = "except"
    /\ pages' = [n \in DOMAIN pages \ {wlog[i].name[2] : i \in DOMAIN wlog}
                    |-> pages[n]]
    /\ out' = Append(out, "export_error")
    /\ ret' = "False"
    /\ pc' = "finally"
    /\ UNCHANGED <<table, changed, clock, dirExists, index_file, metadata_file,
                   conn, locals, wlog, exc, exit_code, disk0,
                   qlog, coordinator>>

\* the handler invalidates the manifest and the index of the output_dir
ExceptRemovesManifest ==
    /\ pc = "except"
    /\ metadata_file' = Absent
    /\ index_file' = Absent
    /\ out' = Append(out, "export_error")
    /\ ret' = "False"
    /\ pc' = "finally"
    /\ UNCHANGED <<table, changed, clock, dirExists, pages, conn, locals, wlog,
                   exit_code, disk0, exc, qlog, coordinator>>

\* lines 203-205
Except ==
    /\ pc = "except"
    /\ out' = Append(out, "export_error")
    /\ ret' = "False"
    /\ pc' = "finally"
    /\ UNCHANGED <<table, changed, clock, disk, conn, locals, wlog, exit_code,
                   disk0, exc, qlog, coordinator>>

\* the result is not passed on to sys.exit
ExitCodeAlwaysZero(r) == 0

\* sys.exit(0 if success else 1)
ExitCode(r) == IF r = "True" THEN 0 ELSE 1

\* lines 206-207, then lines 220-221
Finally ==
    /\ pc = "finally"
    /\ conn' = Append(conn, "close")
    /\ exit_code' = ExitCode(ret)
    /\ pc' = "exited"
    /\ UNCHANGED <<table, changed, clock, disk, locals, ret, wlog, out, disk0, exc,
                   qlog, coordinator>>

\* another process modifies the table while this run pages through it
SourceChanges ==
    /\ pc \in {"paging", "normalizing", "writing_page"}
    /\ changed < MaxChanges
    /\ table' \in Tables \ {table}
    /\ changed' = changed + 1
    /\ UNCHANGED <<clock, disk, pc, conn, locals, ret, wlog, out, exit_code,
                   disk0, exc, qlog, coordinator>>

\* the script is started again with the same output_dir
NewRun ==
    /\ pc = "exited"
    /\ clock < MaxRuns
    /\ clock' = clock + 1
    /\ table' \in Tables
    /\ changed' = 0
    /\ pc' = "start"
    /\ conn' = <<>>
    /\ total_count' = 0
    /\ total_pages' = 0
    /\ page' = 0
    /\ rows' = <<>>
    /\ page_data' = <<>>
    /\ all_items' = <<>>
    /\ search_index' = EmptyIndex
    /\ exc' = NoException
    /\ ret' = "none"
    /\ wlog' = <<>>
    /\ qlog' = <<>>
    /\ out' = <<>>
    /\ exit_code' = -1
    /\ disk0' = disk
    /\ UNCHANGED <<disk, coordinator>>

\* one run of the script
Run ==
    \/ MakeDirs \/ MakeDirsFails
    \/ Connect \/ ConnectFails
    \/ CountQuery \/ QueryFails
    \/ PageQuery \/ NormalizeRows
    \/ WritePage \/ WritePageFails
    \/ BuildSearchIndex
    \/ WriteIndex \/ WriteIndexFails
    \/ WriteMetadata \/ WriteMetadataFails
    \/ Summary \/ SummaryFails
    \/ Except \/ Finally

\* successive runs into one output_dir; the source may differ from run to run
\* and is not modified while a run is in progress
Next == Run \/ NewRun

Spec == Init /\ [][Next]_vars

\* one run, started on an empty output_dir, for every table size up to MaxCount
InitOneRun == InitOn({MkTable(n) : n \in 0..MaxCount})

SpecOneRun == InitOneRun /\ [][Run]_vars

\* the script is started again with the same output_dir after a successful
\* run, the source being what it was
RunAgain ==
    /\ ret = "True"
    /\ NewRun
    /\ table' = table

\* successive runs against an unchanged source
NextAgain == Run \/ RunAgain

SpecAgain == Init /\ [][NextAgain]_vars

\* one run that is not suspended for ever: the interpreter executes the next
\* statement, and every call the script makes returns or raises
SpecFair == Init /\ [][Run]_vars /\ WF_vars(Run)

\* one run during which another process modifies the source
NextConcurrent == Run \/ SourceChanges

SpecConcurrent == Init /\ [][NextConcurrent]_vars

-----------------------------------------------------------------------------
(* The coordinator, tmp/coordinator_map_orchestration.py.  The plan file   *)
(* is an input: a JSON object that maps agent ids to a role and a task     *)
(* list.  Timestamps (datetime.now()) are left out of agents and messages. *)
(* A spawn_agent coroutine awaits send_message only, which awaits nothing, *)
(* so a spawn_agent task runs from start to end without giving up the      *)
(* event loop; the order in which the loop runs the tasks is left open.    *)

MaxAgents == 3      \* most agents in a plan

AgentIds ==
    {"ANALYST_MAP_001", "ARCHITECT_MAP_001", "DEVELOPER_MAP_001",
     "TESTER_MAP_001"}

\* plan["agents"][agent_id]
AgentConfig(agent_id) ==
    [role |-> IF agent_id = "TESTER_MAP_001" THEN "tester" ELSE "builder",
     tasks |-> IF agent_id = "ANALYST_MAP_001" THEN <<>> ELSE <<"task">>]

\* the agent ids of the plans that are loaded
Plans == {P \in SUBSET AgentIds : Cardinality(P) <= MaxAgents}

project_id == "MAP_VIEW_IMPLEMENTATION_001"

\* recipient_id or "BROADCAST"
Recipient(recipient_id) ==
    IF recipient_id = None THEN <<"str", "BROADCAST">> ELSE recipient_id

\* send_message, lines 50-57
SendMessage(log, sender_id, recipient_id, message_type, content) ==
    Append(log, [sender |-> sender_id, recipient |-> Recipient(recipient_id),
                 type |-> message_type, content |-> content])

\* the four messages of lines 90-137: sender, recipient, type, content
Scripted ==
    <<<<"ANALYST_MAP_001", None, "KNOWLEDGE_SHARE", "finding">>,
      <<"ARCHITECT_MAP_001", <<"str", "DEVELOPER_MAP_001">>, "KNOWLEDGE_SHARE",
        "design">>,
      <<"DEVELOPER_MAP_001", <<"str", "ARCHITECT_MAP_001">>, "HELP_REQUEST",
        "issue">>,
      <<"TESTER_MAP_001", None, "STATUS_UPDATE", "status">>>>

\* lines 156-159: message_types[t] = message_types.get(t, 0) + 1, per message
RECURSIVE CountTypes(_, _)
CountTypes(log, message_types) ==
    IF log = <<>> THEN message_types
    ELSE LET msg_type == Head(log).type
             counted ==
                 IF msg_type \in DOMAIN message_types
                 THEN [message_types EXCEPT ![msg_type] = @ + 1]
                 ELSE message_types @@ (msg_type :> 1)
         IN  CountTypes(Tail(log), counted)

\* lines 140-159
Report(registered, log) ==
    [project_id |-> project_id,
     status |-> "IN_PROGRESS",
     agents |-> registered,
     communication_summary |->
         [total_messages |-> Len(log),
          message_types |-> CountTypes(log, <<>>)]]

\* lines 16-20 and 172: the coordinator is constructed
Construct ==
    /\ cpc = "idle"
    /\ plan' \in Plans
    /\ agents' = <<>>
    /\ communication_log' = <<>>
    /\ cpc' = "load"
    /\ UNCHANGED <<exporter, tasks, sent, report>>

\* lines 62-67
LoadPlan ==
    /\ cpc = "load"
    /\ cpc' = "spawn"
    /\ UNCHANGED <<exporter, plan, agents, communication_log, tasks, sent,
                   report>>

\* line 66 or 67 raises: the plan file is missing or is not JSON
LoadPlanFails ==
    /\ cpc = "load"
    /\ cpc' = "failed"
    /\ UNCHANGED <<exporter, plan, agents, communication_log, tasks, sent,
                   report>>

\* lines 72-82: one coroutine per agent of the plan, handed to asyncio.gather
CreateTasks ==
    /\ cpc = "spawn"
    /\ tasks' = plan
    /\ cpc' = "gather"
    /\ UNCHANGED <<exporter, plan, agents, communication_log, sent, report>>

\* spawn_agent, lines 24-46, with the send_message it awaits
SpawnAgent(agent_id) ==
    /\ cpc = "gather"
    /\ agent_id \in tasks
    /\ agents' = [a \in DOMAIN agents \cup {agent_id} |->
                     IF a = agent_id
                     THEN [id |-> agent_id,
                           role |-> AgentConfig(agent_id).role,
                           tasks |-> AgentConfig(agent_id).tasks,
                           status |-> "active"]
                     ELSE agents[a]]
    /\ communication_log' =
           SendMessage(communication_log, "COORDINATOR_MAP_001", None,
                       "TASK_ASSIGNMENT",
                       [agent_id |-> agent_id,
                        role |-> AgentConfig(agent_id).role,
                        tasks |-> AgentConfig(agent_id).tasks,
                        project |-> project_id])
    /\ tasks' = tasks \ {agent_id}
    /\ UNCHANGED <<exporter, plan, cpc, sent, report>>

\* the event loop runs one of the tasks that are ready
SpawnSome == \E agent_id \in tasks : SpawnAgent(agent_id)

\* a gather that returns while spawn_agent tasks have not run
GatherReturnsEarly ==
    /\ cpc = "gather"
    /\ cpc' = "sleep"
    /\ UNCHANGED <<exporter, plan, agents, communication_log, tasks, sent,
                   report>>

\* line 82 returns: every task has finished
GatherReturns ==
    /\ cpc = "gather"
    /\ tasks = {}
    /\ cpc' = "sleep"
    /\ UNCHANGED <<exporter, plan, agents, communication_log, tasks, sent,
                   report>>

\* line 87
Sleep ==
    /\ cpc = "sleep"
    /\ cpc' = "scripted"
    /\ UNCHANGED <<exporter, plan, agents, communication_log, tasks, sent,
                   report>>

\* lines 90-137, one send_message at a time
SendScripted ==
    /\ cpc = "scripted"
    /\ sent < Len(Scripted)
    /\ communication_log' =
           SendMessage(communication_log, Scripted[sent + 1][1],
                       Scripted[sent + 1][2], Scripted[sent + 1][3],
                       Scripted[sent + 1][4])
    /\ sent' = sent + 1
    /\ UNCHANGED <<exporter, plan, agents, cpc, tasks, report>>

\* lines 140-159
BuildReport ==
    /\ cpc = "scripted"
    /\ sent = Len(Scripted)
    /\ report' = Report(agents, communication_log)
    /\ cpc' = "save"
    /\ UNCHANGED <<exporter, plan, agents, communication_log, tasks, sent>>

\* lines 162-169
SaveReport ==
    /\ cpc = "save"
    /\ cpc' = "done"
    /\ UNCHANGED <<exporter, plan, agents, communication_log, tasks, sent,
                   report>>

\* line 163 or 164 raises
SaveReportFails ==
    /\ cpc = "save"
    /\ cpc' = "failed"
    /\ UNCHANGED <<exporter, plan, agents, communication_log, tasks, sent,
                   report>>

\* asyncio.run(main())
NextCoordinator ==
    \/ Construct
    \/ LoadPlan \/ LoadPlanFails
    \/ CreateTasks
    \/ SpawnSome
    \/ GatherReturns
    \/ Sleep
    \/ SendScripted
    \/ BuildReport
    \/ SaveReport \/ SaveReportFails

SpecCoordinator == InitOn({<<>>}) /\ [][NextCoordinator]_vars

-----------------------------------------------------------------------------
(* Properties *)

Exited == pc = "exited"
Succeeded == pc = "exited" /\ ret = "True"

\* the COUNT(*) query has returned and total_pages is computed
Counted == \E i \in DOMAIN out : out[i] = "plan"

\* what is in output_dir, apart from the directory itself
Files(d) == <<d[2], d[3], d[4]>>

\* the log of a run that wrote pages 1..n and nothing else
PagesWritten(n) == [i \in 1..n |-> [name |-> PageName(i), res |-> "written"]]

\* the log of a run that wrote every page, the index and the metadata
AllWritten(tp) ==
    PagesWritten(tp) \o <<[name |-> IndexName, res |-> "written"],
                          [name |-> MetadataName, res |-> "written"]>>

\* the ids of the items of page files 1..n, in page order
RECURSIVE PageIds(_, _)
PageIds(ps, n) ==
    IF n = 0 THEN <<>> ELSE PageIds(ps, n - 1) \o Ids(ps[n][2].items)

StrictlyAscending(seq) == \A i \in 1..(Len(seq) - 1) : seq[i] < seq[i + 1]

\* C1: when the table does not change during the run, after a successful run
\* the ids of pages 1..total_pages (total_pages as in metadata.json), taken in
\* page order, are the ids of the source in strictly ascending order, each once.
C1_PagesPartitionSource ==
    (Succeeded /\ changed = 0) =>
        LET n == metadata_file[2].total_pages
        IN  /\ \A i \in 1..n : i \in DOMAIN pages /\ IsJson(pages[i])
            /\ PageIds(pages, n) = Ids(table)
            /\ StrictlyAscending(PageIds(pages, n))
            /\ \A i \in 1..Len(table) :
                   Cardinality({j \in 1..Len(PageIds(pages, n)) :
                                    PageIds(pages, n)[j] = table[i].id[2]}) = 1

C1_Witness ==
    /\ Succeeded /\ changed = 0
    /\ metadata_file[2].total_pages = 3
    /\ Len(table) > 2 * items_per_page

\* C2: total_pages is the least k with k * 50 >= total_count; after a successful
\* run every page but the last holds 50 items and the last holds
\* total_count - (total_pages - 1) * 50 items, between 1 and 50; 120 records
\* give pages of 50, 50 and 20 items.
C2_PageCountAndSizes ==
    /\ Counted =>
          /\ total_pages >= 0
          /\ total_pages * 50 >= total_count
          /\ (total_pages - 1) * 50 < total_count
    /\ Succeeded =>
          /\ \A n \in 1..(total_pages - 1) : Len(pages[n][2].items) = 50
          /\ total_pages > 0 =>
                LET last == Len(pages[total_pages][2].items)
                IN  /\ last = total_count - (total_pages - 1) * 50
                    /\ last >= 1 /\ last <= 50
          /\ total_count = 120 =>
                /\ total_pages = 3
                /\ Len(pages[1][2].items) = 50
                /\ Len(pages[2][2].items) = 50
                /\ Len(pages[3][2].items) = 20

C2_Witness ==
    /\ Succeeded
    /\ total_count = 120
    /\ total_pages = 3

\* the page files present in output_dir
PagesOnDisk == DOMAIN pages

\* C3: whenever the most recent run succeeded, the page files in output_dir are
\* exactly page_1.json .. page_N.json, N being total_pages of metadata.json.
C3_PagesMatchManifest ==
    Succeeded => PagesOnDisk = 1..metadata_file[2].total_pages

\* C4: metadata.json is modified only by its own write, which is the last
\* write of the run and comes after the successful writes of pages
\* 1..total_pages and of search_index.json; after a failed page or index write
\* no write of metadata.json is attempted.
C4_MetadataWrittenLast ==
    /\ metadata_file # disk0[4] =>
           \E i \in DOMAIN wlog :
               wlog[i].name = MetadataName /\ wlog[i].res # "unopened"
    /\ \A i \in DOMAIN wlog :
           wlog[i].name = MetadataName =>
               /\ i = Len(wlog)
               /\ i = total_pages + 2
               /\ SubSeq(wlog, 1, total_pages) = PagesWritten(total_pages)
               /\ wlog[total_pages + 1] = [name |-> IndexName, res |-> "written"]
    /\ \A i \in DOMAIN wlog :
           (wlog[i].name # MetadataName /\ wlog[i].res # "written") =>
               /\ i = Len(wlog)
               /\ metadata_file = disk0[4]

C4_Witness ==
    /\ clock = 2
    /\ total_pages = 3
    /\ Len(wlog) = 5
    /\ wlog[5] = [name |-> MetadataName, res |-> "written"]
    /\ disk0[4] # Absent
    /\ metadata_file # disk0[4]

\* C5: the exit code is 0 exactly when all pages, the index and the metadata
\* were written, and 1 otherwise.
C5_ExitZeroIffAllWritten ==
    Exited =>
        /\ exit_code \in {0, 1}
        /\ exit_code = 0 <=> wlog = AllWritten(total_pages)

\* C5 (amended): the exit code is 0 exactly when the run raised nothing, in
\* which case all pages, the index and the metadata were written and the
\* summary was printed; it is 1 after any failure, including a failure of the
\* directory listing or size read of the summary after every file was written.
C5_ExitCode ==
    Exited =>
        /\ exit_code \in {0, 1}
        /\ exit_code = 0 <=> exc = NoException
        /\ exit_code = 0 <=> ret = "True"
        /\ exit_code = 0 =>
               /\ wlog = AllWritten(total_pages)
               /\ \E i \in DOMAIN out : out[i] = "summary"
        /\ (exit_code = 1 /\ wlog = AllWritten(total_pages)) =>
               exc = Raised("os", "summary", page)

C5_Witness ==
    /\ Exited
    /\ exit_code = 1
    /\ total_pages = 3
    /\ wlog = AllWritten(total_pages)
    /\ exc.where = "summary"

\* the connection was opened in this run
Opened == \E i \in DOMAIN conn : conn[i] = "open"

\* C6: the connection is opened at most once per run and never released
\* unopened; a run that opened it has released it exactly once when it ends.
C6_ConnectionReleasedOnce ==
    /\ conn \in {<<>>, <<"open">>, <<"open", "close">>}
    /\ Exited => conn \in {<<>>, <<"open", "close">>}
    /\ (Exited /\ exc.kind \in {"query", "write"}) => conn = <<"open", "close">>
    /\ Succeeded => conn = <<"open", "close">>

C6_Witness ==
    /\ Exited
    /\ exc = Raised("query", "paging", 1)
    /\ conn = <<"open", "close">>

\* the lines of `lines` that are failure diagnostics of the script
Diagnostics(lines) ==
    SelectSeq(lines, LAMBDA l : l \in {"db_error", "export_error"})

\* C7: when the source cannot be opened the run ends with exit code 1 and one
\* diagnostic, having written no file: the page files, search_index.json and
\* metadata.json are as they were when the run started.
C7_ConnectionErrorWritesNothing ==
    exc.kind = "connect" =>
        /\ Exited
        /\ exit_code = 1
        /\ Diagnostics(out) = <<"db_error">>
        /\ wlog = <<>>
        /\ Files(disk) = Files(disk0)
        /\ conn = <<>>

C7_Witness ==
    /\ exc.kind = "connect"
    /\ clock = 2
    /\ DOMAIN pages = {1, 2, 3}
    /\ IsJson(metadata_file)

\* C8: after the query for page index p has failed, the run has written pages
\* 1..p and nothing else: these hold the documents this run wrote, every other
\* file is as it was when the run started, and the run ends with exit code 1.
C8_PageQueryFailure ==
    (exc.kind = "query" /\ exc.where = "paging") =>
        LET p == exc.page
        IN  /\ pc \in {"except", "finally", "exited"}
            /\ wlog = PagesWritten(p)
            /\ \A n \in 1..p :
                   /\ IsJson(PageFile(pages, n))
                   /\ pages[n][2].page = n
                   /\ pages[n][2].total_items = total_count
                   /\ Ids(pages[n][2].items)
                        = Ids(SelectPage(table, items_per_page, Offset(n - 1)))
            /\ \A n \in (DOMAIN pages \cup DOMAIN disk0[2]) \ (1..p) :
                   PageFile(pages, n) = PageFile(disk0[2], n)
            /\ index_file = disk0[3]
            /\ metadata_file = disk0[4]
            /\ Exited => exit_code = 1

C8_Witness ==
    /\ Exited
    /\ exc = Raised("query", "paging", 1)
    /\ clock = 2
    /\ IsJson(PageFile(pages, 3))
    /\ IsJson(metadata_file)
    /\ metadata_file[2].total_items # total_count

\* C9: a failed run prints exactly one diagnostic line; a successful run
\* prints none, and prints the summary.
C9_OneDiagnosticPerFailure ==
    Exited =>
        /\ exit_code = 1 => Len(Diagnostics(out)) = 1
        /\ exit_code = 0 =>
               /\ Diagnostics(out) = <<>>
               /\ \E i \in DOMAIN out : out[i] = "summary"
        /\ \A i \in DOMAIN out : out[i] # "traceback"

\* v is NULL or the empty string
Missing(v) == v = None \/ v = Str(<<>>)

\* C10: the normalized title, architect and address are the field's
\* placeholder when the source value is NULL or empty and the source value
\* otherwise, and so are never NULL or empty.
C10_Placeholders ==
    pc = "writing_page" =>
        /\ Len(page_data) = Len(rows)
        /\ \A i \in DOMAIN rows :
               /\ page_data[i].title =
                      IF Missing(rows[i].title) THEN UnknownTitle ELSE rows[i].title
               /\ page_data[i].architect =
                      IF Missing(rows[i].architect) THEN UnknownArchitect
                      ELSE rows[i].architect
               /\ page_data[i].address =
                      IF Missing(rows[i].address) THEN UnknownAddress
                      ELSE rows[i].address
               /\ ~Missing(page_data[i].title)
               /\ ~Missing(page_data[i].architect)
               /\ ~Missing(page_data[i].address)

C10_Witness ==
    /\ pc = "writing_page"
    /\ \A f \in {"title", "architect", "address"} :
           /\ \E i \in DOMAIN rows : rows[i][f] = None
           /\ \E i \in DOMAIN rows : rows[i][f] = Str(<<>>)
           /\ \E i \in DOMAIN rows : ~Missing(rows[i][f])

\* C11: the year of a normalized record is the source year when that is a
\* positive integer, and is None for every other source year (NULL, 0, a
\* negative integer); no normalized record, in memory or in a page file of
\* this run, has a year that is zero or negative.
C11_YearPositiveOrNone ==
    /\ pc = "writing_page" =>
           /\ Len(page_data) = Len(rows)
           /\ \A i \in DOMAIN rows :
                  page_data[i].year =
                      IF IsInt(rows[i].year) /\ rows[i].year[2] >= 1
                      THEN rows[i].year ELSE None
    /\ \A i \in DOMAIN all_items :
           IsNone(all_items[i].year) \/ all_items[i].year[2] > 0
    /\ \A i \in DOMAIN wlog :
           (wlog[i].name[1] = "page" /\ wlog[i].res = "written") =>
               \A j \in DOMAIN pages[wlog[i].name[2]][2].items :
                   LET y == pages[wlog[i].name[2]][2].items[j].year
                   IN  IsNone(y) \/ y[2] > 0

C11_Witness ==
    /\ pc = "writing_page"
    /\ \E i \in DOMAIN rows : IsNone(rows[i].year) /\ IsNone(page_data[i].year)
    /\ \E i \in DOMAIN rows : rows[i].year = PInt(0) /\ IsNone(page_data[i].year)
    /\ \E i \in DOMAIN rows : /\ IsInt(rows[i].year) /\ rows[i].year[2] < 0
                              /\ IsNone(page_data[i].year)
    /\ \E i \in DOMAIN rows : /\ IsInt(rows[i].year) /\ rows[i].year[2] > 0
                              /\ page_data[i].year = rows[i].year

\* the index loop of lines 125-165 has run
Indexed == \E i \in DOMAIN out : out[i] = "indexing"

\* the ids listed under any key of a facet
IdsUnder(facet) == {facet[k][j] : <<k, j>> \in
                        UNION {{k} \X DOMAIN facet[k] : k \in DOMAIN facet}}

\* C12: in each facet built from a field that has a placeholder (architects,
\* titles, addresses), a record whose normalized field equals the placeholder
\* appears under no key of that facet.
C12_PlaceholdersExcluded ==
    Indexed =>
        \A i \in DOMAIN all_items :
            /\ all_items[i].architect = UnknownArchitect =>
                   all_items[i].id[2] \notin IdsUnder(search_index.architects)
            /\ all_items[i].title = UnknownTitle =>
                   all_items[i].id[2] \notin IdsUnder(search_index.titles)
            /\ all_items[i].address = UnknownAddress =>
                   all_items[i].id[2] \notin IdsUnder(search_index.addresses)

\* the decimal notation of a positive integer below 10^9, digit by digit
DecimalString(n) ==
    LET len == CHOOSE l \in 1..9 : 10^(l - 1) <= n /\ n < 10^l
    IN  [i \in 1..len |-> Digit((n \div 10^(len - i)) % 10)]

\* the maximal runs of non-whitespace characters of s, as <<first, last>>
Tokens(s) ==
    {ab \in (DOMAIN s) \X (DOMAIN s) :
        /\ ab[1] <= ab[2]
        /\ \A i \in ab[1]..ab[2] : s[i] \notin Whitespace
        /\ ab[1] = 1 \/ s[ab[1] - 1] \in Whitespace
        /\ ab[2] = Len(s) \/ s[ab[2] + 1] \in Whitespace}

\* the keys a normalized record derives in each facet, as the rules state them
DerivedKeys(item) ==
    [architects |->
        IF item.architect # UnknownArchitect
        THEN {Lower(item.architect[2])} ELSE {},
     years |->
        IF IsInt(item.year) THEN {DecimalString(item.year[2])} ELSE {},
     titles |->
        LET low == Lower(item.title[2])
        IN  {SubSeq(low, ab[1], Min(ab[1] + 2, ab[2])) :
                 ab \in {t \in Tokens(low) : t[2] - t[1] + 1 >= 2}},
     categories |->
        IF IsStr(item.category) /\ item.category[2] # <<>>
        THEN {Lower(item.category[2])} ELSE {},
     addresses |->
        IF item.address # UnknownAddress
        THEN {LET low == Lower(item.address[2])
              IN  SubSeq(low, 1, Min(5, Len(low)))}
        ELSE {}]

Facets == {"architects", "years", "titles", "categories", "addresses"}

\* the ids in a list
Listed(ids) == {ids[j] : j \in DOMAIN ids}

\* C13: after a successful run, in every facet of search_index.json an id is
\* listed under key k exactly when the record with that id derives k under
\* the facet's rule (architects: the whole lower-cased non-placeholder
\* architect; years: the decimal string of a present year; titles: the first
\* 3 characters of each whitespace-separated token of length >= 2 of the
\* lower-cased title; categories: the whole lower-cased non-empty category;
\* addresses: the first 5 characters of the lower-cased non-placeholder
\* address), and no key has an empty list.
C13_IndexKeys ==
    Succeeded =>
        /\ IsJson(index_file)
        /\ DOMAIN index_file[2] = Facets
        /\ \A f \in Facets :
               LET facet == index_file[2][f]
               IN  /\ \A i \in DOMAIN all_items :
                          DerivedKeys(all_items[i])[f] \subseteq DOMAIN facet
                   /\ \A k \in DOMAIN facet :
                          /\ facet[k] # <<>>
                          /\ Listed(facet[k]) =
                                 {all_items[i].id[2] : i \in
                                     {j \in DOMAIN all_items :
                                          k \in DerivedKeys(all_items[j])[f]}}

C13_Witness ==
    /\ Succeeded
    /\ total_count = MaxCount
    /\ \A f \in Facets : Cardinality(DOMAIN index_file[2][f]) >= 1
    /\ Cardinality(DOMAIN index_file[2].titles) >= 3
    /\ \E k \in DOMAIN index_file[2].addresses : Len(k) < 5
    /\ \E k \in DOMAIN index_file[2].addresses : Len(k) = 5
    /\ \E i \in DOMAIN all_items :
           /\ all_items[i].architect = UnknownArchitect
           /\ all_items[i].address = UnknownAddress
           /\ IsNone(all_items[i].year)
           /\ ~Truthy(all_items[i].category)

\* the page statements among the executed statements
PageStatements(log) == SelectSeq(log, LAMBDA s : s.q = "page")

\* C14: with a source of zero records a run that meets no error succeeds:
\* it executes no page query, writes no page file, writes a search index
\* whose five mappings are all present and empty, and writes metadata with
\* total_items = 0 and total_pages = 0.
C14_EmptySource ==
    /\ (Counted /\ Len(table) = 0) =>
           /\ total_count = 0
           /\ total_pages = 0
           /\ PageStatements(qlog) = <<>>
           /\ pages = disk0[2]
           /\ \A i \in DOMAIN wlog : wlog[i].name[1] # "page"
           /\ \A i \in DOMAIN out : out[i] # "page"
    /\ (Exited /\ Len(table) = 0 /\ exc = NoException) =>
           /\ Succeeded
           /\ exit_code = 0
           /\ wlog = AllWritten(0)
           /\ qlog = <<CountStatement(TRUE)>>
           /\ IsJson(index_file)
           /\ DOMAIN index_file[2] = Facets
           /\ \A f \in Facets : DOMAIN index_file[2][f] = {}
           /\ IsJson(metadata_file)
           /\ metadata_file[2].total_items = 0
           /\ metadata_file[2].total_pages = 0

C14_Witness ==
    /\ Succeeded
    /\ Len(table) = 0
    /\ index_file = Json(EmptyIndex)
    /\ metadata_file[2].total_pages = 0
    /\ pages = <<>>

\* a metadata document without its generated_at
Undated(f) == [k \in DOMAIN f[2] \ {"generated_at"} |-> f[2][k]]

\* C15: a run that succeeds after a successful run against the same source
\* leaves the same page files with the same content and the same search
\* index as the earlier run did; metadata.json differs from the earlier one
\* in generated_at at most.
C15_Idempotent ==
    (Succeeded /\ clock > 1) =>
        /\ DOMAIN pages = DOMAIN disk0[2]
        /\ pages = disk0[2]
        /\ index_file = disk0[3]
        /\ IsJson(metadata_file) /\ IsJson(disk0[4])
        /\ Undated(metadata_file) = Undated(disk0[4])

C15_Witness ==
    /\ Succeeded
    /\ clock > 1
    /\ total_pages = 3
    /\ pages = disk0[2]
    /\ index_file = disk0[3]
    /\ metadata_file # disk0[4]
    /\ metadata_file[2].generated_at # disk0[4][2].generated_at

\* the numbers of the page files this run has written
WrittenPages ==
    {wlog[i].name[2] : i \in {j \in DOMAIN wlog :
         wlog[j].name[1] = "page" /\ wlog[j].res = "written"}}

\* C16: every page_<n>.json written in a run has 1 <= n <= total_pages and
\* carries page = n; once the run has written metadata.json, each of them
\* carries the total_pages, items_per_page and total_items of that
\* metadata.json.
C16_PagesAgreeWithMetadata ==
    /\ \A n \in WrittenPages :
           /\ 1 <= n /\ n <= total_pages
           /\ IsJson(PageFile(pages, n))
           /\ pages[n][2].page = n
    /\ (\E i \in DOMAIN wlog : wlog[i] = [name |-> MetadataName, res |-> "written"]) =>
           \A n \in WrittenPages :
               /\ pages[n][2].total_pages = metadata_file[2].total_pages
               /\ pages[n][2].items_per_page = metadata_file[2].items_per_page
               /\ pages[n][2].total_items = metadata_file[2].total_items
               /\ n <= metadata_file[2].total_pages

C16_Witness ==
    /\ Succeeded
    /\ WrittenPages = {1, 2}
    /\ metadata_file[2].total_pages = 2
    /\ IsJson(PageFile(pages, 3))
    /\ pages[3][2].total_pages # metadata_file[2].total_pages

\* the steps that may follow a step that raised nothing.  The values of pc
\* name the step about to be executed: "start" is INIT, "connect" leads to
\* CONNECTED, "count" is COUNTING, "paging", "normalizing", "writing_page",
\* "indexing", "writing_index" and "writing_metadata" are the steps of those
\* names, "summary" and "finally" complete the run, and "exited" is DONE when
\* the run returned True and FAILED otherwise.
FollowingSteps(step) ==
    CASE step = "start"            -> {"connect"}
      [] step = "connect"          -> {"count"}
      [] step = "count"            -> {"paging", "indexing"}
      [] step = "paging"           -> {"normalizing"}
      [] step = "normalizing"      -> {"writing_page"}
      [] step = "writing_page"     -> {"paging", "indexing"}
      [] step = "indexing"         -> {"writing_index"}
      [] step = "writing_index"    -> {"writing_metadata"}
      [] step = "writing_metadata" -> {"summary"}
      [] step = "summary"          -> {"finally"}
      [] step = "finally"          -> {"exited"}
      [] OTHER                     -> {}

\* one step of a run, as the step order allows it
OrderedStep ==
    IF exc' = NoException
    THEN /\ pc' \in FollowingSteps(pc)
         /\ pc = "count" =>
                /\ page' = 0
                /\ pc' = IF total_pages' > 0 THEN "paging" ELSE "indexing"
         /\ pc = "writing_page" =>
                /\ pc' = IF page + 1 < total_pages THEN "paging" ELSE "indexing"
                /\ pc' = "paging" => page' = page + 1
         /\ pc \in {"paging", "normalizing"} => page' = page
    ELSE IF exc = NoException
         THEN pc' \in {"except", "exited"}
         ELSE /\ exc' = exc
              /\ <<pc, pc'>> \in {<<"except", "finally">>, <<"finally", "exited">>}
              /\ UNCHANGED <<disk, locals, wlog, qlog>>

\* C17: a run executes its steps in the order start (INIT), connect
\* (CONNECTED), count (COUNTING), then for each page in increasing order
\* paging, normalizing, writing_page, then indexing, writing_index,
\* writing_metadata and the end of the run (DONE); a step that raises leads to
\* the failure handling and the terminal state FAILED (exit code 1), after
\* which no step of the pipeline is executed; no step is executed twice for
\* the same page.
C17_StepOrder ==
    /\ [][OrderedStep]_vars
    /\ [](Exited => IF exc = NoException
                    THEN ret = "True" /\ exit_code = 0
                    ELSE ret # "True" /\ exit_code = 1)

C17_Witness ==
    /\ Succeeded
    /\ total_pages = 3
    /\ page = 2
    /\ wlog = AllWritten(3)
    /\ out = <<"banner", "connected", "total", "plan", "page", "page", "page",
               "indexing", "index_ok", "meta_ok", "summary">>

\* C18: every run ends: it reaches the terminal state (DONE or FAILED, pc =
\* "exited") after at most total_pages executions of the page loop, and no
\* step is taken from the terminal state.
C18_Terminates ==
    /\ <>Exited
    /\ [](/\ Len(PageStatements(qlog)) <= total_pages
          /\ Len(SelectSeq(wlog, LAMBDA w : w.name[1] = "page")) <= total_pages
          /\ Len(SelectSeq(out, LAMBDA l : l = "page")) <= total_pages)
    /\ [][~Exited]_vars

C18_Witness ==
    /\ Exited
    /\ total_count = MaxCount
    /\ exc = NoException
    /\ Len(PageStatements(qlog)) = total_pages
    /\ total_pages = CeilDiv(MaxCount, items_per_page)
    /\ ~ENABLED Run

\* the page statements that returned, one per page index 0 .. n - 1
AllPagesQueried(n) ==
    /\ Len(PageStatements(qlog)) = n
    /\ \A i \in 1..n : PageStatements(qlog)[i].ok

\* C19: nothing is indexed before every page has been queried and
\* normalized: while the index loop has not run the index is empty; when it
\* starts, each of the total_pages pages has been queried and all_items holds
\* the normalized records of all of them, in order; from then on all_items
\* does not change.
C19_IndexAfterAllPages ==
    /\ [](~Indexed => search_index = EmptyIndex)
    /\ []((pc = "indexing" \/ Indexed) =>
             /\ AllPagesQueried(total_pages)
             /\ Len(wlog) >= total_pages
             /\ SubSeq(wlog, 1, total_pages) = PagesWritten(total_pages)
             /\ Len(all_items) = total_count
             /\ all_items = NormalizeAll(table))
    /\ [][(pc = "indexing" \/ Indexed) => all_items' = all_items]_vars

C19_Witness ==
    /\ pc = "writing_index"
    /\ total_pages = 3
    /\ Len(all_items) = MaxCount
    /\ \A f \in Facets : search_index[f] # <<>>

\* the statements of a run that counted and then queried pages 0 .. n - 1
QueryPlan(n) ==
    <<CountStatement(TRUE)>> \o
    [p \in 1..n |-> [q |-> "page", limit |-> items_per_page,
                     offset |-> (p - 1) * items_per_page, ok |-> TRUE]]

\* C20: a successful run executes exactly one count query and then exactly
\* total_pages page queries, the one for page index p with limit =
\* items_per_page and offset = p * items_per_page; page files are written in
\* increasing page order, page_<n>.json before the query for page n + 1.
C20_QueryPlan ==
    /\ Succeeded =>
           /\ qlog = QueryPlan(total_pages)
           /\ wlog = AllWritten(total_pages)
    /\ pc = "paging" =>
           /\ qlog = QueryPlan(page)
           /\ wlog = PagesWritten(page)
    /\ pc \in {"normalizing", "writing_page"} =>
           /\ qlog = QueryPlan(page + 1)
           /\ wlog = PagesWritten(page)

C20_Witness ==
    /\ Succeeded
    /\ total_pages = 3
    /\ Len(qlog) = 4
    /\ qlog[4].offset = 2 * items_per_page
    /\ qlog[4].limit = items_per_page

\* the fields that have neither a placeholder nor a validity test
PassedThrough ==
    {"id", "latitude", "longitude", "category", "big_category", "description",
     "image_url", "tags", "prefecture", "contractor", "structural_designer",
     "landscape_designer", "shinkenchiku_url"}

\* C21: every field of a normalized record other than title, architect,
\* address and year is the value of the source row, None included: in the
\* page in memory, in all_items and in the page files the run has written.
C21_OtherFieldsVerbatim ==
    /\ pc = "writing_page" =>
           /\ Len(page_data) = Len(rows)
           /\ \A i \in DOMAIN rows : \A f \in PassedThrough :
                  page_data[i][f] = rows[i][f]
    /\ \A i \in DOMAIN all_items :
           /\ DOMAIN all_items[i] = DOMAIN table[i]
           /\ \A f \in PassedThrough : all_items[i][f] = table[i][f]
    /\ \A n \in WrittenPages :
           \A j \in DOMAIN pages[n][2].items : \A f \in PassedThrough :
               pages[n][2].items[j][f] = table[Offset(n - 1) + j][f]

C21_Witness ==
    /\ pc = "writing_page"
    /\ \E i \in DOMAIN rows :
           /\ IsNone(rows[i].category) /\ IsNone(page_data[i].category)
           /\ IsNone(page_data[i].latitude) /\ IsNone(page_data[i].tags)
    /\ \E i \in DOMAIN rows :
           /\ rows[i].category = Str(<<>>) /\ page_data[i].category = Str(<<>>)
    /\ \E i \in DOMAIN rows :
           /\ rows[i].description = Str(<<>>)
           /\ page_data[i].description = Str(<<>>)
    /\ \E i \in DOMAIN rows :
           /\ page_data[i].category = Str(G_Museum)
           /\ IsInt(page_data[i].latitude)
    /\ \E i \in DOMAIN rows : IsStr(page_data[i].tags)

\* how many times a normalized record derives key k in facet f: once per
\* token for titles, once at most in the other facets
Derivations(item, f, k) ==
    IF f = "titles"
    THEN LET low == Lower(item.title[2])
         IN  Cardinality({t \in Tokens(low) :
                 /\ t[2] - t[1] + 1 >= 2
                 /\ SubSeq(low, t[1], Min(t[1] + 2, t[2])) = k})
    ELSE IF k \in DerivedKeys(item)[f] THEN 1 ELSE 0

\* how many times id occurs in a list
Occurrences(ids, id) == Cardinality({j \in DOMAIN ids : ids[j] = id})

\* C22: when the index has been built, in every facet every id list is in
\* processing order (non-decreasing in id) and nothing is deduplicated: an id
\* occurs in the
\* list of key k once per time its record derives k, hence at most once per
\* list in the architects, years, categories and addresses facets, and more
\* than once only in the titles facet, for a title with two tokens that share
\* their first 3 characters.
C22_ListsInProcessingOrder ==
    pc = "writing_index" =>
        \A f \in Facets : \A k \in DOMAIN search_index[f] :
            LET ids == search_index[f][k]
            IN  /\ \A j \in 1..(Len(ids) - 1) : ids[j] <= ids[j + 1]
                /\ \A i \in DOMAIN all_items :
                       Occurrences(ids, all_items[i].id[2]) =
                           Derivations(all_items[i], f, k)
                /\ f # "titles" => StrictlyAscending(ids)
                /\ \A j \in DOMAIN ids :
                       \E i \in DOMAIN all_items : all_items[i].id[2] = ids[j]

C22_Witness ==
    /\ pc = "writing_index"
    /\ total_count = MaxCount
    /\ \E k \in DOMAIN search_index.titles :
           \E j \in 1..(Len(search_index.titles[k]) - 1) :
               /\ search_index.titles[k][j] = search_index.titles[k][j + 1]
               /\ j + 2 \in DOMAIN search_index.titles[k]
               /\ search_index.titles[k][j + 1] < search_index.titles[k][j + 2]
    /\ \E k \in DOMAIN search_index.architects :
           Len(search_index.architects[k]) > 1

\* the steps that come before the write of search_index.json
BeforeIndexStep == {"start", "connect", "count", "paging", "writing_page"}

\* the steps that come before the write of metadata.json
BeforeMetadataStep == BeforeIndexStep \cup {"writing_index"}

\* C23: a run that fails before the metadata step leaves metadata.json as it
\* was when the run started, and one that fails before the index step leaves
\* search_index.json as it was too; after a failure at page index p of the
\* page loop both files are those of the earlier run while page files 1..p
\* are the documents of the failed run.
C23_FailedRunKeepsManifest ==
    /\ exc.where \in BeforeMetadataStep => metadata_file = disk0[4]
    /\ exc.where \in BeforeIndexStep => index_file = disk0[3]
    /\ exc.where \in {"paging", "writing_page"} =>
           /\ metadata_file = disk0[4]
           /\ index_file = disk0[3]
           /\ \A n \in 1..exc.page :
                  /\ pages[n] = Json(PageDoc(n - 1, total_pages, total_count,
                         NormalizeAll(SelectPage(table, items_per_page,
                                                 Offset(n - 1)))))
                  /\ [name |-> PageName(n), res |-> "written"] = wlog[n]

C23_Witness ==
    /\ Exited
    /\ exc.where \in {"paging", "writing_page"}
    /\ exc.page = 1
    /\ clock = 2
    /\ IsJson(disk0[4]) /\ IsJson(disk0[3])
    /\ metadata_file = disk0[4]
    /\ index_file = disk0[3]
    /\ metadata_file[2].total_items = 1
    /\ pages[1][2].total_items = MaxCount
    /\ PageFile(pages, 1) # PageFile(disk0[2], 1)

\* the number of items in page files 1..n
RECURSIVE PageItemCount(_, _)
PageItemCount(ps, n) ==
    IF n = 0 THEN 0 ELSE PageItemCount(ps, n - 1) + Len(ps[n][2].items)

\* the last page query has just returned (or there is no page to query)
LastPageRead ==
    \/ pc = "normalizing" /\ page + 1 = total_pages
    \/ pc = "indexing" /\ total_pages = 0

\* the number of records exported is the total_items of the manifest
ExportedIsTotal ==
    PageItemCount(pages, total_pages) = metadata_file[2].total_items

\* C24: after a successful run the number of records in the page files is
\* the number of records given to the index builder, and every page file
\* carries the total_items of metadata.json, which is the initial count; the
\* number of records exported equals that total_items whenever the source
\* was not modified between the count query and the last page query.
C24_ExportedCount ==
    /\ [](Succeeded =>
             /\ PageItemCount(pages, total_pages) = Len(all_items)
             /\ metadata_file[2].total_items = total_count
             /\ \A n \in 1..total_pages :
                    pages[n][2].total_items = metadata_file[2].total_items)
    /\ []((LastPageRead /\ changed = 0) => [](Succeeded => ExportedIsTotal))

\* the source was modified after the last page query only
C24_Witness ==
    /\ Succeeded
    /\ changed = 1
    /\ total_count = MaxCount
    /\ Len(table) = 1
    /\ PageItemCount(pages, total_pages) = MaxCount
    /\ ExportedIsTotal

\* the source was modified before the last page query, and the run exported
\* fewer records than total_items says
C24_SourceChangedCountDiffers ==
    /\ Succeeded
    /\ changed = 1
    /\ PageItemCount(pages, total_pages) < metadata_file[2].total_items

\* asyncio.gather has returned
GatherDone ==
    \/ cpc \in {"sleep", "scripted", "save", "done"}
    \/ cpc = "failed" /\ report # <<>>

\* the positions of the TASK_ASSIGNMENT messages that name agent_id
Assignments(log, agent_id) ==
    {i \in DOMAIN log : /\ log[i].type = "TASK_ASSIGNMENT"
                        /\ log[i].content.agent_id = agent_id}

\* the sum of the values of a mapping
RECURSIVE SumOf(_)
SumOf(f) ==
    IF DOMAIN f = {} THEN 0
    ELSE LET k == CHOOSE x \in DOMAIN f : TRUE
         IN  f[k] + SumOf([x \in DOMAIN f \ {k} |-> f[x]])

\* C25: whatever the order in which the event loop runs the spawn_agent
\* tasks, once asyncio.gather has returned every agent of the plan is in
\* agents, once, with status "active", and the log holds exactly one
\* TASK_ASSIGNMENT broadcast naming it; the TASK_ASSIGNMENT messages come
\* before the scripted messages KNOWLEDGE_SHARE, KNOWLEDGE_SHARE,
\* HELP_REQUEST, STATUS_UPDATE, which are in that order; no message is
\* missing or repeated; and total_messages of the report is the number of
\* agents plus 4 and the sum of its message_types counts.
C25_GatherRegistersEveryAgent ==
    GatherDone =>
        LET n == Cardinality(plan)
            log == communication_log
        IN  /\ DOMAIN agents = plan
            /\ \A a \in plan :
                   /\ agents[a].id = a
                   /\ agents[a].status = "active"
                   /\ agents[a].role = AgentConfig(a).role
                   /\ Cardinality(Assignments(log, a)) = 1
                   /\ \A i \in Assignments(log, a) :
                          /\ log[i].sender = "COORDINATOR_MAP_001"
                          /\ log[i].recipient = <<"str", "BROADCAST">>
            /\ tasks = {}
            /\ Len(log) = n + sent
            /\ \A i \in DOMAIN log : i <= n <=> log[i].type = "TASK_ASSIGNMENT"
            /\ [i \in 1..sent |-> log[n + i].type] =
                   SubSeq(<<"KNOWLEDGE_SHARE", "KNOWLEDGE_SHARE",
                            "HELP_REQUEST", "STATUS_UPDATE">>, 1, sent)
            /\ report # <<>> =>
                   LET summary == report.communication_summary
                   IN  /\ sent = 4
                       /\ summary.total_messages = n + 4
                       /\ summary.total_messages = SumOf(summary.message_types)
                       /\ summary.total_messages = Len(log)
                       /\ report.agents = agents

C25_Witness ==
    /\ cpc = "done"
    /\ Cardinality(plan) = MaxAgents
    /\ communication_log[1].content.agent_id = "TESTER_MAP_001"
    /\ communication_log[MaxAgents].content.agent_id = "ANALYST_MAP_001"
    /\ report.communication_summary.total_messages = MaxAgents + 4
    /\ report.communication_summary.message_types["TASK_ASSIGNMENT"] = MaxAgents
    /\ report.communication_summary.message_types["KNOWLEDGE_SHARE"] = 2

=============================================================================
